---- MODULE Spec2Model ----
(***************************************************************************)
(* A circular genome with transposable elements (TEs), in its two          *)
(* implementations: ListGenome (src/src/ListGenome.py, an ordered Python   *)
(* list of Feature(feature, start, end) records and a dict from TE id to   *)
(* list index) and LinkedListGenome (src/src/LinkedGenome.py, a ring of    *)
(* doubly linked Link objects around a dummy head and a dict from TE id to *)
(* Link).  Every method is a pure operator from the object before the call *)
(* to the object after it and the value returned or exception raised; the  *)
(* actions apply the operators to one store of each class.  Two further    *)
(* specifications drive two LinkedListGenome objects of one process, and   *)
(* follow the while loop of LinkedListGenome.copy_te turn by turn.         *)
(***************************************************************************)
EXTENDS Integers, Sequences, FiniteSets, TLC

(***************************************************************************)
(* Bounds of the exploration.                                              *)
(***************************************************************************)
\* construction sizes 1..MaxN, next to the 10 of the end-to-end scenarios
MaxN == 2
\* calls made on a store of size 1..MaxN after its construction
MaxCalls == 3
\* calls made on the store of size 10 after its construction
MaxCallsLarge == 2
\* positions a store may gain over its construction size, so also the
\* longest TE
MaxGrowth == 4
\* copy offsets reach OffsetSlack beyond one full turn in both directions
OffsetSlack == 1
\* where the while loop of copy_te is followed turn by turn, copy offsets
\* reach OffsetSlack beyond MaxTurns full turns in both directions
MaxTurns == 3
\* calls made on a store there, the copy_te that is followed being the last
MaxCallsWalk == 2

(***************************************************************************)
(* Python values.                                                          *)
(***************************************************************************)
empty_te == 0
active_te == 1
inactive_te == 2

\* Python's None where the code otherwise holds an int (the implicit return
\* of find_where_to_insert, the val of the dummy head)
None == -1

\* the outcome of a call: a returned int, a returned None, or an exception
RetInt(v) == [kind |-> "int", val |-> v]
RetNone == [kind |-> "None", val |-> 0]
Raise(exc) == [kind |-> exc, val |-> 0]
\* the call was not made on this store
NotCalled == [kind |-> "not called", val |-> 0]

Exceptions == {"KeyError", "IndexError", "TypeError", "AttributeError"}
IsRaise(ret) == ret.kind \in Exceptions

\* mapping = "-Ax"
mapping == <<"-", "A", "x">>

\* n * ch for a one-character string ch: the empty string when n <= 0
Repeat(n, ch) == [i \in 1..n |-> ch]

RECURSIVE JoinAll(_)
\* "".join(parts)
JoinAll(parts) ==
    IF parts = <<>> THEN <<>> ELSE Head(parts) \o JoinAll(Tail(parts))

\* dict.pop(key) / dict[key] = value on a dict modelled as a function
DictPop(d, key) == [k \in (DOMAIN d) \ {key} |-> d[k]]
DictSet(d, key, value) ==
    [k \in (DOMAIN d) \cup {key} |-> IF k = key THEN value ELSE d[k]]

SetMin(S) == CHOOSE x \in S : \A y \in S : x <= y

(***************************************************************************)
(* ListGenome.  self = [genome, identifiers_active, counter_te]; list      *)
(* indexes are Python's (from 0), genome[i] is the TLA+ element i + 1.     *)
(***************************************************************************)
ListFeature(feature, start, end) ==
    [feature |-> feature, start |-> start, end |-> end]

\* list[i] with Python's negative indexes
ListItemOk(list, i) == -Len(list) <= i /\ i < Len(list)
ListItem(list, i) == IF i >= 0 THEN list[i + 1] ELSE list[Len(list) + i + 1]

\* list.insert(i, x) for 0 <= i
ListInsert(list, i, x) ==
    IF i >= Len(list) THEN Append(list, x)
    ELSE SubSeq(list, 1, i) \o <<x>> \o SubSeq(list, i + 1, Len(list))

ListInit(n) ==
    [genome |-> <<ListFeature(empty_te, 0, n)>>,
     identifiers_active |-> <<>>,
     counter_te |-> 0]

ListLen(self) == ListItem(self.genome, -1).end

ListActiveTes(self) == DOMAIN self.identifiers_active

\* __str__ as it would be if each record were expanded to its end rather than
\* to its end - start: C12 does not survive it
ListStrByEnd(self) ==
    JoinAll([i \in 1..Len(self.genome) |->
        Repeat(self.genome[i].end,
               mapping[self.genome[i].feature + 1])])

ListStr(self) ==
    JoinAll([i \in 1..Len(self.genome) |->
        Repeat(self.genome[i].end - self.genome[i].start,
               mapping[self.genome[i].feature + 1])])

ListDisableTe(self, te) ==
    IF te \notin DOMAIN self.identifiers_active
    THEN [self |-> self, ret |-> RetNone]
    ELSE LET original_index == self.identifiers_active[te] IN
         IF original_index = 0
         THEN [self |-> self, ret |-> RetNone]
         ELSE LET popped ==
                    [self EXCEPT !.identifiers_active = DictPop(@, te)] IN
              IF ~ListItemOk(self.genome, original_index)
              THEN [self |-> popped, ret |-> Raise("IndexError")]
              ELSE [self |-> [popped EXCEPT
                        !.genome[original_index + 1].feature = inactive_te],
                    ret |-> RetNone]

\* dicts iterate in insertion order, and ids are inserted in increasing order
ListDisableIfActive(self, index) ==
    LET hits == {id \in DOMAIN self.identifiers_active :
                    self.identifiers_active[id] = index} IN
    IF hits = {} THEN [self |-> self, ret |-> RetNone]
    ELSE ListDisableTe(self, SetMin(hits))

\* update_te_counter as it would be if identifiers were numbered by the size of
\* the table: C9 does not survive it
ListUpdateTeCounterReuse(self) ==
    [self EXCEPT !.counter_te = Cardinality(DOMAIN self.identifiers_active) + 1]

ListUpdateTeCounter(self) == [self EXCEPT !.counter_te = @ + 1]

ListUpdateIdentifiersFrom(self, pos) ==
    [self EXCEPT !.identifiers_active =
        [k \in DOMAIN @ |-> IF @[k] > pos THEN @[k] + 3 ELSE @[k]]]

ListFindWhereToInsert(self, start) ==
    LET hits == {index \in 0..(Len(self.genome) - 1) :
                    /\ self.genome[index + 1].start <= start
                    /\ start <= self.genome[index + 1].end} IN
    IF hits = {} THEN None ELSE SetMin(hits)

\* update_genome_by_add_diff as it would be with range(index + 1, ...): C2
\* does not survive it
ListUpdateGenomeByAddDiffLate(genome, length, index) ==
    [i \in 1..Len(genome) |->
        IF i - 1 >= index + 1
        THEN ListFeature(genome[i].feature,
                         genome[i].start + length, genome[i].end + length)
        ELSE genome[i]]

ListUpdateGenomeByAddDiff(genome, length, index) ==
    [i \in 1..Len(genome) |->
        IF i - 1 >= index
        THEN ListFeature(genome[i].feature,
                         genome[i].start + length, genome[i].end + length)
        ELSE genome[i]]

\* the genome after insert_into, or the exception it raises
ListInsertInto(genome, new_feature, index, start, end) ==
    IF index = None
    THEN [genome |-> genome, ret |-> Raise("TypeError")]
    ELSE LET old == ListItem(genome, index)
             split_size == old.end - start IN
         IF split_size < 0
         THEN [genome |-> genome, ret |-> Raise("IndexError")]
         ELSE LET g1 == [genome EXCEPT
                            ![index + 1] = ListFeature(new_feature, start, end)]
                  g2 == ListInsert(g1, index,
                            ListFeature(old.feature, old.start, start))
                  g3 == IF index + 2 > Len(g2)
                        THEN Append(g2,
                            ListFeature(old.feature, end, end + split_size))
                        ELSE ListInsert(g2, index + 2,
                            ListFeature(old.feature, end, end + split_size)) IN
              [genome |-> ListUpdateGenomeByAddDiff(g3, end - start, index + 3),
               ret |-> RetNone]

ListInsertTe(self, pos, length) ==
    LET index == ListFindWhereToInsert(self, pos)
        disabled == ListDisableIfActive(self, index) IN
    IF IsRaise(disabled.ret) THEN disabled
    ELSE LET inserted == ListInsertInto(disabled.self.genome, active_te,
                                        index, pos, pos + length) IN
         IF IsRaise(inserted.ret)
         THEN [self |-> disabled.self, ret |-> inserted.ret]
         ELSE LET s1 == ListUpdateTeCounter(
                            [disabled.self EXCEPT !.genome = inserted.genome])
                  s2 == [s1 EXCEPT !.identifiers_active =
                            DictSet(@, s1.counter_te, index + 1)] IN
              [self |-> ListUpdateIdentifiersFrom(s2, pos),
               ret |-> RetInt(s1.counter_te)]

ListCalculatePosFromOffset(self, offset, original) ==
    LET new_position == original.start + offset IN
    IF new_position < 0 THEN ListLen(self) + new_position
    ELSE IF new_position > ListLen(self) THEN new_position - ListLen(self)
    ELSE new_position

ListCopyTe(self, te, offset) ==
    IF te \notin DOMAIN self.identifiers_active
    THEN [self |-> self, ret |-> RetNone]
    ELSE LET original_index == self.identifiers_active[te] IN
         IF ~ListItemOk(self.genome, original_index)
         THEN [self |-> self, ret |-> Raise("IndexError")]
         ELSE LET original == ListItem(self.genome, original_index) IN
              ListInsertTe(self,
                  ListCalculatePosFromOffset(self, offset, original),
                  original.end - original.start)

(***************************************************************************)
(* LinkedListGenome.  Link objects live in heap, a sequence addressed by   *)
(* reference (its index); self = [heap, active_identifier, head,           *)
(* counter_te].  active_identifier is declared in the class body, so it is *)
(* one dict for the class; counter_te becomes an attribute of the object   *)
(* at its first "+= 1".                                                    *)
(***************************************************************************)
LinkedFeature(feature, length) == [feature |-> feature, length |-> length]

Link(val, p, n) == [val |-> val, prev |-> p, next |-> n]

\* the heap after insert_after(link, val); the new Link is the last one
LinkedInsertAfter(heap, link, val) ==
    LET new_link == Len(heap) + 1
        h1 == Append(heap, Link(val, link, heap[link].next))
        h2 == [h1 EXCEPT ![h1[new_link].prev].next = new_link] IN
    [h2 EXCEPT ![h2[new_link].next].prev = new_link]

\* __init__ run on an existing heap and class dict
LinkedInit(heap, active_identifier, n) ==
    LET head == Len(heap) + 1
        h1 == Append(heap, Link(LinkedFeature(None, 0), head, head)) IN
    [heap |-> LinkedInsertAfter(h1, h1[head].prev,
                                LinkedFeature(empty_te, n)),
     active_identifier |-> active_identifier,
     head |-> head,
     counter_te |-> 0]

RECURSIVE LinkedIterFrom(_, _, _)
LinkedIterFrom(heap, head, feature) ==
    IF feature = head THEN <<>>
    ELSE <<feature>> \o LinkedIterFrom(heap, head, heap[feature].next)

\* __iter__, as the Links whose val it yields
LinkedIter(self) ==
    LinkedIterFrom(self.heap, self.head, self.heap[self.head].next)

RECURSIVE LinkedIterWithPosFrom(_, _, _, _)
LinkedIterWithPosFrom(heap, head, feature, acc) ==
    IF feature = head THEN <<>>
    ELSE LET acc1 == acc + heap[feature].val.length IN
         <<[feature |-> feature, end |-> acc1]>>
            \o LinkedIterWithPosFrom(heap, head, heap[feature].next, acc1)

LinkedIntoIterWithPos(self) ==
    LinkedIterWithPosFrom(self.heap, self.head, self.heap[self.head].next, 0)

LinkedLen(self) ==
    LET it == LinkedIntoIterWithPos(self) IN
    IF it = <<>> THEN 0 ELSE it[Len(it)].end

LinkedActiveTes(self) == DOMAIN self.active_identifier

LinkedStr(self) ==
    LET it == LinkedIter(self) IN
    JoinAll([i \in 1..Len(it) |->
        Repeat(self.heap[it[i]].val.length,
               mapping[self.heap[it[i]].val.feature + 1])])

LinkedDisableFeature(self, feature) ==
    LET hits == {identifier \in DOMAIN self.active_identifier :
                    self.active_identifier[identifier] = feature}
        s1 == [self EXCEPT !.heap[feature].val =
                  LinkedFeature(inactive_te, @.length)] IN
    IF hits = {} THEN s1
    ELSE [s1 EXCEPT !.active_identifier = DictPop(@, SetMin(hits))]

\* insert_into as it would be if the TE were entered in the table before the
\* counter is advanced: C17 does not survive it
LinkedInsertIntoEarly(self, length, feature, split_size_1, split_size_2) ==
    LET s1 == IF self.heap[feature].val.feature = active_te
              THEN LinkedDisableFeature(self, feature) ELSE self
        h1 == [s1.heap EXCEPT ![feature].val =
                  LinkedFeature(@.feature, split_size_1)]
        h2 == LinkedInsertAfter(h1, feature, LinkedFeature(active_te, length))
        h3 == LinkedInsertAfter(h2, h2[feature].next,
                  LinkedFeature(h2[feature].val.feature, split_size_2)) IN
    [s1 EXCEPT !.heap = h3,
               !.counter_te = @ + 1,
               !.active_identifier =
                    DictSet(@, s1.counter_te, h3[feature].next)]

LinkedInsertInto(self, length, feature, split_size_1, split_size_2) ==
    LET s1 == IF self.heap[feature].val.feature = active_te
              THEN LinkedDisableFeature(self, feature) ELSE self
        h1 == [s1.heap EXCEPT ![feature].val =
                  LinkedFeature(@.feature, split_size_1)]
        h2 == LinkedInsertAfter(h1, feature, LinkedFeature(active_te, length))
        h3 == LinkedInsertAfter(h2, h2[feature].next,
                  LinkedFeature(h2[feature].val.feature, split_size_2)) IN
    [s1 EXCEPT !.heap = h3,
               !.counter_te = @ + 1,
               !.active_identifier =
                    DictSet(@, s1.counter_te + 1, h3[feature].next)]

\* insert_te as it would be with the two split sizes exchanged: C10 does not
\* survive it
LinkedInsertTeSwapped(self, pos, length) ==
    LET it == LinkedIntoIterWithPos(self)
        hits == {i \in 1..Len(it) : it[i].end > pos} IN
    IF hits = {} THEN [self |-> self, ret |-> RetInt(-1)]
    ELSE LET feature == it[SetMin(hits)].feature
             end == it[SetMin(hits)].end
             s1 == LinkedInsertInto(self, length, feature,
                       end - pos, self.heap[feature].val.length - end + pos) IN
         [self |-> s1, ret |-> RetInt(s1.counter_te)]

LinkedInsertTe(self, pos, length) ==
    LET it == LinkedIntoIterWithPos(self)
        hits == {i \in 1..Len(it) : it[i].end > pos} IN
    IF hits = {} THEN [self |-> self, ret |-> RetInt(-1)]
    ELSE LET feature == it[SetMin(hits)].feature
             end == it[SetMin(hits)].end
             s1 == LinkedInsertInto(self, length, feature,
                       self.heap[feature].val.length - end + pos, end - pos) IN
         [self |-> s1, ret |-> RetInt(s1.counter_te)]

\* getattr(feature, direction)
LinkedGetattr(heap, feature, direction) ==
    IF direction = "next" THEN heap[feature].next ELSE heap[feature].prev

\* one turn of the while loop as it would be without its last line,
\* "offset -= feature.val.length": C20 does not survive it
LinkedCopyWalkStepKeep(heap, head, feature, direction, offset) ==
    LET f1 == LinkedGetattr(heap, feature, direction)
        f2 == IF f1 = head THEN LinkedGetattr(heap, f1, direction)
              ELSE f1 IN
    IF heap[f2].val.feature = None
    THEN [feature |-> f2, offset |-> offset, raised |-> TRUE]
    ELSE [feature |-> f2, offset |-> offset, raised |-> FALSE]

\* one turn of the while loop of copy_te, from the Link feature with offset
\* left: the Link and the offset it goes on with.  The val of a dummy head is
\* None, so the loop raises AttributeError at ".length" when it steps on a
\* head that is not self.head (the head of another LinkedListGenome).
LinkedCopyWalkStep(heap, head, feature, direction, offset) ==
    LET f1 == LinkedGetattr(heap, feature, direction)
        f2 == IF f1 = head THEN LinkedGetattr(heap, f1, direction)
              ELSE f1 IN
    IF heap[f2].val.feature = None
    THEN [feature |-> f2, offset |-> offset, raised |-> TRUE]
    ELSE [feature |-> f2, offset |-> offset - heap[f2].val.length,
          raised |-> FALSE]

RECURSIVE LinkedCopyWalk(_, _, _, _, _)
\* the while loop of copy_te: the Link and the offset it ends with
LinkedCopyWalk(heap, head, feature, direction, offset) ==
    IF offset > 0
    THEN LET w == LinkedCopyWalkStep(heap, head, feature, direction, offset) IN
         IF w.raised THEN w
         ELSE LinkedCopyWalk(heap, head, w.feature, direction, w.offset)
    ELSE [feature |-> feature, offset |-> offset, raised |-> FALSE]

LinkedAbs(x) == IF x < 0 THEN -x ELSE x

\* the first lines of copy_te for an Active original: the direction and the
\* offset that the while loop starts with
LinkedCopyStart(self, original, offset) ==
    [direction |-> IF offset > 0 THEN "next" ELSE "prev",
     offset |-> IF offset > 0
                THEN offset - self.heap[original].val.length
                ELSE offset * (-1)]

\* the last lines of copy_te: the insertion at the Link and with the offset
\* that the while loop ended with
LinkedCopyEnd(self, original, direction, feature, offset) ==
    LET s1 == IF direction = "next"
              THEN LinkedInsertInto(self,
                      self.heap[original].val.length, feature,
                      self.heap[feature].val.length + offset,
                      LinkedAbs(offset))
              ELSE LinkedInsertInto(self,
                      self.heap[original].val.length, feature,
                      LinkedAbs(offset),
                      self.heap[feature].val.length + offset) IN
    [self |-> s1, ret |-> RetInt(s1.counter_te)]

LinkedCopyTe(self, te, offset) ==
    IF te \notin DOMAIN self.active_identifier
    THEN [self |-> self, ret |-> Raise("KeyError")]
    ELSE LET original == self.active_identifier[te] IN
         IF self.heap[original].val.feature # active_te
         THEN [self |-> self, ret |-> RetNone]
         ELSE LET start == LinkedCopyStart(self, original, offset)
                  w == LinkedCopyWalk(self.heap, self.head, original,
                                      start.direction, start.offset) IN
              IF w.raised
              THEN [self |-> self, ret |-> Raise("AttributeError")]
              ELSE LinkedCopyEnd(self, original, start.direction,
                                 w.feature, w.offset)

LinkedDisableTe(self, te) ==
    IF te \notin DOMAIN self.active_identifier
    THEN [self |-> self, ret |-> Raise("KeyError")]
    ELSE LET feature == self.active_identifier[te] IN
         [self |-> [self EXCEPT
                !.active_identifier = DictPop(@, te),
                !.heap[feature].val = LinkedFeature(inactive_te, @.length)],
          ret |-> RetNone]

(***************************************************************************)
(* The state: one ListGenome (lg) and one LinkedListGenome (the object ll, *)
(* its Links in heap, the class dict active_identifier), both constructed  *)
(* with the same n and driven by the same calls.  The other variables      *)
(* record the last call: its name and arguments, both stores before it,    *)
(* and what it returned or raised on each store.  ll2 is a second          *)
(* LinkedListGenome object of the same process, where one is constructed   *)
(* (its Links are in heap too, and the class dict is the same one), with   *)
(* old_ll2 and ret_ll2 for it.  walk is the position of a copy_te that is  *)
(* inside its while loop, where the loop is followed turn by turn.         *)
(***************************************************************************)
VARIABLES n, lg, heap, active_identifier, ll,
          call, old_lg, old_ll, ret_lg, ret_ll,
          ncalls, same_calls, returned_lg, returned_ll,
          ll2, old_ll2, ret_ll2, walk

vars == <<n, lg, heap, active_identifier, ll,
          call, old_lg, old_ll, ret_lg, ret_ll,
          ncalls, same_calls, returned_lg, returned_ll,
          ll2, old_ll2, ret_ll2, walk>>

\* the LinkedListGenome object together with what it reaches
LinkedSelf ==
    [heap |-> heap, active_identifier |-> active_identifier,
     head |-> ll.head, counter_te |-> ll.counter_te]

\* the second LinkedListGenome object together with what it reaches
LinkedSelf2 ==
    [heap |-> heap, active_identifier |-> active_identifier,
     head |-> ll2.head, counter_te |-> ll2.counter_te]

\* no second object was constructed
NoStore == [head |-> 0, counter_te |-> 0]

\* no copy_te is inside its while loop
NoWalk == [te |-> 0, given |-> 0, original |-> 0, direction |-> "none",
           feature |-> 0, offset |-> 0]

Call(op, a, b) == [op |-> op, a |-> a, b |-> b]

Max(a, b) == IF a >= b THEN a ELSE b

\* construction sizes: the small ones and the 10 of the end-to-end scenarios
Sizes == (1..MaxN) \cup {10}

CallBudget == IF n <= MaxN THEN MaxCalls ELSE MaxCallsLarge

Init ==
    /\ n \in Sizes
    /\ lg = ListInit(n)
    /\ LET s == LinkedInit(<<>>, <<>>, n) IN
          /\ heap = s.heap
          /\ active_identifier = s.active_identifier
          /\ ll = [head |-> s.head, counter_te |-> s.counter_te]
    /\ call = Call("__init__", n, 0)
    /\ old_lg = lg
    /\ old_ll = LinkedSelf
    /\ ret_lg = RetNone
    /\ ret_ll = RetNone
    /\ ncalls = 0
    /\ same_calls = TRUE
    /\ returned_lg = <<>>
    /\ returned_ll = <<>>
    /\ ll2 = NoStore
    /\ old_ll2 = NoStore
    /\ ret_ll2 = NotCalled
    /\ walk = NoWalk

NoCall(self) == [self |-> self, ret |-> NotCalled]

Returned(returned, c, ret) ==
    IF c.op \in {"insert_te", "copy_te"} /\ ret.kind = "int"
    THEN Append(returned, ret.val) ELSE returned

\* one call c of the driver: on_lg and on_ll are its outcomes on the stores.
\* The exploration stops at CallBudget calls and at MaxGrowth added positions.
Step(c, on_lg, on_ll) ==
    /\ ncalls < CallBudget
    /\ ListLen(on_lg.self) <= n + MaxGrowth
    /\ LinkedLen(on_ll.self) <= n + MaxGrowth
    /\ ncalls' = ncalls + 1
    /\ n' = n
    /\ call' = c
    /\ old_lg' = lg
    /\ old_ll' = LinkedSelf
    /\ lg' = on_lg.self
    /\ ret_lg' = on_lg.ret
    /\ heap' = on_ll.self.heap
    /\ active_identifier' = on_ll.self.active_identifier
    /\ ll' = [head |-> on_ll.self.head, counter_te |-> on_ll.self.counter_te]
    /\ ret_ll' = on_ll.ret
    /\ same_calls' = (same_calls /\ on_lg.ret # NotCalled
                                 /\ on_ll.ret # NotCalled)
    /\ returned_lg' = Returned(returned_lg, c, on_lg.ret)
    /\ returned_ll' = Returned(returned_ll, c, on_ll.ret)
    /\ walk' = NoWalk
    /\ UNCHANGED <<ll2, old_ll2, ret_ll2>>

\* the precondition of insert_te(pos, length) on a store of length len
InsertPre(pos, length, len) == 0 <= pos /\ pos < len /\ length > 0

\* insert_te(pos, length), made on each store whose precondition it meets
InsertTe ==
    \E pos \in 0..(Max(ListLen(lg), LinkedLen(LinkedSelf)) - 1),
       length \in 1..MaxGrowth :
        Step(Call("insert_te", pos, length),
             IF InsertPre(pos, length, ListLen(lg))
             THEN ListInsertTe(lg, pos, length) ELSE NoCall(lg),
             IF InsertPre(pos, length, LinkedLen(LinkedSelf))
             THEN LinkedInsertTe(LinkedSelf, pos, length)
             ELSE NoCall(LinkedSelf))

Offsets(len) == (-(len + OffsetSlack))..(len + OffsetSlack)

\* copy_te(te, offset), made on each store that has issued te
CopyTe ==
    \E te \in 1..Max(lg.counter_te, ll.counter_te),
       offset \in Offsets(Max(ListLen(lg), LinkedLen(LinkedSelf))) :
        Step(Call("copy_te", te, offset),
             IF te <= lg.counter_te
             THEN ListCopyTe(lg, te, offset) ELSE NoCall(lg),
             IF te <= ll.counter_te
             THEN LinkedCopyTe(LinkedSelf, te, offset)
             ELSE NoCall(LinkedSelf))

\* disable_te(te) for an issued or not yet issued te, made on both stores
DisableTe ==
    \E te \in 1..(Max(lg.counter_te, ll.counter_te) + 1) :
        Step(Call("disable_te", te, 0),
             ListDisableTe(lg, te),
             LinkedDisableTe(LinkedSelf, te))

\* insert_te(pos, length) outside its precondition, made on each store whose
\* precondition it breaks
InsertTeInvalid ==
    \E pos \in (-1)..(Max(ListLen(lg), LinkedLen(LinkedSelf)) + 1),
       length \in 0..1 :
        /\ \/ ~InsertPre(pos, length, ListLen(lg))
           \/ ~InsertPre(pos, length, LinkedLen(LinkedSelf))
        /\ Step(Call("insert_te", pos, length),
             IF ~InsertPre(pos, length, ListLen(lg))
             THEN ListInsertTe(lg, pos, length) ELSE NoCall(lg),
             IF ~InsertPre(pos, length, LinkedLen(LinkedSelf))
             THEN LinkedInsertTe(LinkedSelf, pos, length)
             ELSE NoCall(LinkedSelf))

Next == InsertTe \/ CopyTe \/ DisableTe

\* every call meets its precondition
Spec == Init /\ [][Next]_vars

NextInvalid == InsertTe \/ CopyTe \/ DisableTe \/ InsertTeInvalid

\* calls of insert_te outside its precondition are made too
SpecInvalid == Init /\ [][NextInvalid]_vars

(***************************************************************************)
(* Two LinkedListGenome objects in one process.  Their Links are in the    *)
(* one heap; active_identifier is an attribute of the class, so both       *)
(* objects read and write the same dict; counter_te is an attribute of     *)
(* each object.  Each call is made on one of the two.                      *)
(***************************************************************************)
Stores == {"ll", "ll2"}

SelfOf(which) == IF which = "ll" THEN LinkedSelf ELSE LinkedSelf2

\* LinkedListGenome(n) and then LinkedListGenome(m)
InitTwo ==
    /\ n \in 1..MaxN
    /\ lg = ListInit(n)
    /\ \E m \in 1..MaxN :
          LET s == LinkedInit(<<>>, <<>>, n)
              s2 == LinkedInit(s.heap, s.active_identifier, m) IN
          /\ heap = s2.heap
          /\ active_identifier = s2.active_identifier
          /\ ll = [head |-> s.head, counter_te |-> s.counter_te]
          /\ ll2 = [head |-> s2.head, counter_te |-> s2.counter_te]
          /\ call = Call("__init__", m, 0)
    /\ old_lg = lg
    /\ old_ll = LinkedSelf
    /\ old_ll2 = LinkedSelf2
    /\ ret_lg = NotCalled
    /\ ret_ll = RetNone
    /\ ret_ll2 = RetNone
    /\ ncalls = 0
    /\ same_calls = FALSE
    /\ returned_lg = <<>>
    /\ returned_ll = <<>>
    /\ walk = NoWalk

\* one call c made on the object which, with the outcome on.  The exploration
\* stops at MaxCalls calls and at MaxGrowth added positions.
StepTwo(c, which, on) ==
    /\ ncalls < MaxCalls
    /\ LinkedLen([on.self EXCEPT !.head = ll.head]) <= MaxN + MaxGrowth
    /\ LinkedLen([on.self EXCEPT !.head = ll2.head]) <= MaxN + MaxGrowth
    /\ ncalls' = ncalls + 1
    /\ call' = c
    /\ old_ll' = LinkedSelf
    /\ old_ll2' = LinkedSelf2
    /\ heap' = on.self.heap
    /\ active_identifier' = on.self.active_identifier
    /\ ll' = IF which = "ll"
             THEN [ll EXCEPT !.counter_te = on.self.counter_te] ELSE ll
    /\ ll2' = IF which = "ll2"
              THEN [ll2 EXCEPT !.counter_te = on.self.counter_te] ELSE ll2
    /\ ret_ll' = IF which = "ll" THEN on.ret ELSE NotCalled
    /\ ret_ll2' = IF which = "ll2" THEN on.ret ELSE NotCalled
    /\ returned_ll' = IF which = "ll" THEN Returned(returned_ll, c, on.ret)
                      ELSE returned_ll
    /\ UNCHANGED <<n, lg, old_lg, ret_lg, same_calls, returned_lg, walk>>

\* insert_te(pos, length) within its precondition, on one of the objects
TwoInsertTe ==
    \E which \in Stores :
        \E pos \in 0..(LinkedLen(SelfOf(which)) - 1), length \in 1..MaxGrowth :
            StepTwo(Call("insert_te", pos, length), which,
                    LinkedInsertTe(SelfOf(which), pos, length))

\* copy_te(te, offset) on one of the objects, for a te that one of them issued
TwoCopyTe ==
    \E which \in Stores :
        \E te \in 1..Max(ll.counter_te, ll2.counter_te),
           offset \in Offsets(LinkedLen(SelfOf(which))) :
            StepTwo(Call("copy_te", te, offset), which,
                    LinkedCopyTe(SelfOf(which), te, offset))

\* disable_te(te) on one of the objects
TwoDisableTe ==
    \E which \in Stores :
        \E te \in 1..(Max(ll.counter_te, ll2.counter_te) + 1) :
            StepTwo(Call("disable_te", te, 0), which,
                    LinkedDisableTe(SelfOf(which), te))

NextTwo == TwoInsertTe \/ TwoCopyTe \/ TwoDisableTe

\* two LinkedListGenome objects, every call within its precondition
SpecTwo == InitTwo /\ [][NextTwo]_vars

(***************************************************************************)
(* LinkedListGenome.copy_te followed through its while loop, one turn of   *)
(* the loop per step.  The ListGenome takes part in the other calls only.  *)
(***************************************************************************)
Walking == walk # NoWalk

\* copy_te gets to its while loop: te is in the table and its Link is Active
Walks(te) ==
    /\ te \in DOMAIN active_identifier
    /\ heap[active_identifier[te]].val.feature = active_te

WalkOffsets(len) ==
    (-(MaxTurns * len + OffsetSlack))..(MaxTurns * len + OffsetSlack)

\* the calls made before the copy_te that is followed
WalkBudget == ncalls < MaxCallsWalk /\ ncalls < CallBudget

WalkInsertTe == ~Walking /\ WalkBudget /\ InsertTe

WalkDisableTe == ~Walking /\ WalkBudget /\ DisableTe

\* copy_te(te, offset) up to its while loop, or to its end where it returns
\* or raises before the loop.  The budget of calls and of growth is asked
\* for here, so that a copy that was begun can end.
CopyBegin ==
    /\ ~Walking
    /\ WalkBudget
    /\ \E te \in 1..ll.counter_te,
          offset \in WalkOffsets(LinkedLen(LinkedSelf)) :
            IF Walks(te)
            THEN LET original == active_identifier[te]
                     start == LinkedCopyStart(LinkedSelf, original, offset) IN
                 /\ LinkedLen(LinkedSelf) + heap[original].val.length
                       <= n + MaxGrowth
                 /\ walk' = [te |-> te, given |-> offset,
                             original |-> original,
                             direction |-> start.direction,
                             feature |-> original, offset |-> start.offset]
                 /\ UNCHANGED <<n, lg, heap, active_identifier, ll,
                                call, old_lg, old_ll, ret_lg, ret_ll,
                                ncalls, same_calls, returned_lg, returned_ll,
                                ll2, old_ll2, ret_ll2>>
            ELSE Step(Call("copy_te", te, offset), NoCall(lg),
                      LinkedCopyTe(LinkedSelf, te, offset))

\* one turn of the while loop
CopyTurn ==
    /\ Walking
    /\ walk.offset > 0
    /\ LET w == LinkedCopyWalkStep(heap, ll.head, walk.feature,
                                   walk.direction, walk.offset) IN
       /\ ~w.raised
       /\ walk' = [walk EXCEPT !.feature = w.feature, !.offset = w.offset]
    /\ UNCHANGED <<n, lg, heap, active_identifier, ll,
                   call, old_lg, old_ll, ret_lg, ret_ll,
                   ncalls, same_calls, returned_lg, returned_ll,
                   ll2, old_ll2, ret_ll2>>

\* the while loop is left: the insertion, and the return
CopyEnd ==
    /\ Walking
    /\ walk.offset <= 0
    /\ Step(Call("copy_te", walk.te, walk.given), NoCall(lg),
            LinkedCopyEnd(LinkedSelf, walk.original, walk.direction,
                          walk.feature, walk.offset))

NextWalk ==
    WalkInsertTe \/ WalkDisableTe \/ CopyBegin \/ CopyTurn \/ CopyEnd

InitWalk == Init /\ n \in 1..MaxN

\* what the last step of a copy_te shows of CopyEnd: the loop was left and
\* the call is over.  Where the loop was left NextWalk allows CopyEnd only,
\* and CopyBegin has asked for its budget, so this step is enabled where
\* CopyEnd is and every such step is a CopyEnd step.
CopyReturns ==
    /\ Walking
    /\ walk.offset <= 0
    /\ walk' = NoWalk

\* a copy_te that is in its loop goes on: the interpreter runs the call to
\* its end before anything else is called
SpecWalk ==
    InitWalk /\ [][NextWalk]_vars
        /\ WF_vars(CopyTurn) /\ WF_walk(CopyReturns)

(***************************************************************************)
(* What a caller can observe of a store.                                   *)
(***************************************************************************)
ListObs(self) ==
    [render |-> ListStr(self), length |-> ListLen(self),
     active_tes |-> ListActiveTes(self)]

LinkedObs(self) ==
    [render |-> LinkedStr(self), length |-> LinkedLen(self),
     active_tes |-> LinkedActiveTes(self)]

\* the features of a store in order, as runs [start, end) with their state
\* and the identifiers the table maps to them
ListRuns(self) ==
    [i \in 1..Len(self.genome) |->
        [feature |-> self.genome[i].feature,
         start |-> self.genome[i].start,
         end |-> self.genome[i].end,
         owners |-> {id \in DOMAIN self.identifiers_active :
                        self.identifiers_active[id] = i - 1}]]

LinkedRuns(self) ==
    LET it == LinkedIntoIterWithPos(self) IN
    [i \in 1..Len(it) |->
        [feature |-> self.heap[it[i].feature].val.feature,
         start |-> it[i].end - self.heap[it[i].feature].val.length,
         end |-> it[i].end,
         owners |-> {id \in DOMAIN self.active_identifier :
                        self.active_identifier[id] = it[i].feature}]]

RECURSIVE SumLengths(_)
SumLengths(runs) ==
    IF runs = <<>> THEN 0
    ELSE (Head(runs).end - Head(runs).start) + SumLengths(Tail(runs))

ListCalled == ret_lg # NotCalled
LinkedCalled == ret_ll # NotCalled

(***************************************************************************)
(* C1.  The active-ID table is sound.                                      *)
(***************************************************************************)
\* every identifier of the table is mapped to a feature of the store, that
\* feature is Active, no two identifiers are mapped to the same feature, and
\* every Active feature has an identifier
ListTableSound(self) ==
    LET t == self.identifiers_active IN
    /\ \A id \in DOMAIN t :
          /\ 0 <= t[id] /\ t[id] < Len(self.genome)
          /\ self.genome[t[id] + 1].feature = active_te
    /\ \A a, b \in DOMAIN t : t[a] = t[b] => a = b
    /\ \A i \in 1..Len(self.genome) :
          self.genome[i].feature = active_te
            => \E id \in DOMAIN t : t[id] = i - 1

LinkedTableSound(self) ==
    LET t == self.active_identifier
        it == LinkedIter(self) IN
    /\ \A id \in DOMAIN t :
          /\ \E i \in 1..Len(it) : it[i] = t[id]
          /\ self.heap[t[id]].val.feature = active_te
    /\ \A a, b \in DOMAIN t : t[a] = t[b] => a = b
    /\ \A i \in 1..Len(it) :
          self.heap[it[i]].val.feature = active_te
            => \E id \in DOMAIN t : t[id] = it[i]

\* C1: in both strategies, in every state reached by calls that meet their
\* preconditions, active_tes() is exactly the identifiers whose mapped feature
\* is Active, the mapping is injective, and every Active feature is mapped by
\* exactly one identifier.
C1_ActiveTableSound ==
    ListTableSound(lg) /\ LinkedTableSound(LinkedSelf)

(***************************************************************************)
(* C2.  The features tile [0, length()).                                   *)
(***************************************************************************)
\* the runs start at 0, each starts where the previous one ends, none ends
\* before it starts, and their lengths sum to len
Tiles(runs, len) ==
    /\ runs # <<>>
    /\ runs[1].start = 0
    /\ \A i \in 1..(Len(runs) - 1) : runs[i + 1].start = runs[i].end
    /\ \A i \in 1..Len(runs) : runs[i].start <= runs[i].end
    /\ SumLengths(runs) = len

\* the lengths of the features that __iter__ yields
LinkedIterLengths(self) ==
    LET it == LinkedIter(self) IN
    [i \in 1..Len(it) |->
        [start |-> 0, end |-> self.heap[it[i]].val.length]]

\* C2: in both strategies, in every state reached by calls that meet their
\* preconditions, the features in order are contiguous and gapless from
\* position 0, without overlap, and the sum of their lengths equals length().
C2_Partition ==
    /\ Tiles(ListRuns(lg), ListLen(lg))
    /\ Tiles(LinkedRuns(LinkedSelf), LinkedLen(LinkedSelf))
    /\ SumLengths(LinkedIterLengths(LinkedSelf)) = LinkedLen(LinkedSelf)

\* both stores hold a TE and its copy, at least five features each
C2_Witness ==
    /\ call.op = "copy_te"
    /\ ret_lg.kind = "int" /\ ret_ll.kind = "int"
    /\ Len(lg.genome) >= 5
    /\ Len(LinkedIter(LinkedSelf)) >= 5

(***************************************************************************)
(* C3.  disable_te of an identifier that is not active.                    *)
(***************************************************************************)
\* C3: in both strategies, disable_te(te) for a te that is not in the
\* active-ID table raises nothing and changes neither render(), length() nor
\* active_tes() (so that a second disable_te(te) acts like none).
C3_DisableAbsentNoOp ==
    call.op = "disable_te" =>
        /\ call.a \notin ListActiveTes(old_lg) =>
              /\ ~IsRaise(ret_lg)
              /\ ListObs(lg) = ListObs(old_lg)
        /\ call.a \notin LinkedActiveTes(old_ll) =>
              /\ ~IsRaise(ret_ll)
              /\ LinkedObs(LinkedSelf) = LinkedObs(old_ll)

(***************************************************************************)
(* C4.  copy_te of an identifier that is not active.                       *)
(***************************************************************************)
\* C4: in both strategies, copy_te(te, offset) for an issued te that is not
\* active returns None, raises nothing, and leaves render(), length() and
\* active_tes() unchanged.
C4_CopyInactiveAbsent ==
    call.op = "copy_te" =>
        /\ (ListCalled /\ call.a \notin ListActiveTes(old_lg)) =>
              /\ ret_lg = RetNone
              /\ ListObs(lg) = ListObs(old_lg)
        /\ (LinkedCalled /\ call.a \notin LinkedActiveTes(old_ll)) =>
              /\ ret_ll = RetNone
              /\ LinkedObs(LinkedSelf) = LinkedObs(old_ll)

(***************************************************************************)
(* C5.  insert_te strictly inside an Active feature.                       *)
(***************************************************************************)
\* for every Active run of runs that has pos strictly inside: after the
\* insertion its positions render as x around a run of A of the new length
\* at pos, and its identifiers are not active
InsideActive(runs, pos, length, render, active_tes) ==
    \A i \in 1..Len(runs) :
        (/\ runs[i].feature = active_te
         /\ runs[i].start < pos /\ pos < runs[i].end) =>
            /\ Len(render) >= runs[i].end + length
            /\ \A p \in runs[i].start..(pos - 1) : render[p + 1] = "x"
            /\ \A p \in pos..(pos + length - 1) : render[p + 1] = "A"
            /\ \A p \in (pos + length)..(runs[i].end + length - 1) :
                  render[p + 1] = "x"
            /\ runs[i].owners \cap active_tes = {}

\* C5: in both strategies, insert_te at a position strictly inside an Active
\* feature, wherever that TE lies, leaves every position of the old TE as x,
\* a run of A of the new length at the insertion point between its two
\* parts, and the old TE's identifier out of active_tes().
C5_InsertInsideActive ==
    call.op = "insert_te" =>
        /\ ListCalled =>
              InsideActive(ListRuns(old_lg), call.a, call.b,
                           ListStr(lg), ListActiveTes(lg))
        /\ LinkedCalled =>
              InsideActive(LinkedRuns(old_ll), call.a, call.b,
                           LinkedStr(LinkedSelf), LinkedActiveTes(LinkedSelf))

(***************************************************************************)
(* C6.  The two strategies behave alike.                                   *)
(***************************************************************************)
\* C6: as long as both stores have been given the same calls, each within
\* its precondition, every call returns the same on both and render(),
\* length() and the set of active_tes() are equal after it.
C6_StrategiesAgree ==
    same_calls =>
        /\ ret_lg = ret_ll
        /\ ListObs(lg) = LinkedObs(LinkedSelf)

(***************************************************************************)
(* C7.  copy_te wraps around.                                              *)
(***************************************************************************)
\* C7: in both strategies, for an active te and the length L of the genome
\* before the call, copy_te(te, offset), copy_te(te, offset + L) and
\* copy_te(te, offset - L) made from the same state all succeed and end with
\* the same render().
C7_CopyWraparound ==
    call.op = "copy_te" =>
        /\ (ListCalled /\ call.a \in ListActiveTes(old_lg)) =>
              \A turn \in {ListLen(old_lg), -ListLen(old_lg)} :
                  LET other == ListCopyTe(old_lg, call.a, call.b + turn) IN
                  /\ ret_lg.kind = "int"
                  /\ other.ret.kind = "int"
                  /\ ListStr(other.self) = ListStr(lg)
        /\ (LinkedCalled /\ call.a \in LinkedActiveTes(old_ll)) =>
              \A turn \in {LinkedLen(old_ll), -LinkedLen(old_ll)} :
                  LET other == LinkedCopyTe(old_ll, call.a, call.b + turn) IN
                  /\ ret_ll.kind = "int"
                  /\ other.ret.kind = "int"
                  /\ LinkedStr(other.self) = LinkedStr(LinkedSelf)

(***************************************************************************)
(* C8.  insert_te outside its precondition.                                *)
(***************************************************************************)
\* a defined error outcome: neither a fault of the indexing inside the store
\* nor an identifier
Rejected(ret) ==
    /\ ret.kind \notin {"TypeError", "IndexError", "KeyError"}
    /\ ~(ret.kind = "int" /\ ret.val >= 1)

\* C8: in both strategies, insert_te with length <= 0 or with pos outside
\* [0, length()) is rejected with a defined error outcome and leaves
\* render(), length() and active_tes() unchanged.
C8_InvalidInsertRejected ==
    call.op = "insert_te" =>
        /\ (ListCalled /\ ~InsertPre(call.a, call.b, ListLen(old_lg))) =>
              /\ Rejected(ret_lg)
              /\ ListObs(lg) = ListObs(old_lg)
        /\ (LinkedCalled /\ ~InsertPre(call.a, call.b, LinkedLen(old_ll))) =>
              /\ Rejected(ret_ll)
              /\ LinkedObs(LinkedSelf) = LinkedObs(old_ll)

(***************************************************************************)
(* C9.  Identifiers are issued in increasing order, once each.             *)
(***************************************************************************)
\* C9: in both strategies, the identifiers returned by the successful
\* insert_te and copy_te calls of a store are 1, 2, 3, ... in call order, so
\* strictly increasing and none returned twice, also after a TE was disabled.
C9_IdentifiersIncrease ==
    /\ \A i \in 1..Len(returned_lg) : returned_lg[i] = i
    /\ \A i \in 1..Len(returned_ll) : returned_ll[i] = i

\* both stores issue an identifier after one of their TEs was disabled
C9_Witness ==
    /\ call.op \in {"insert_te", "copy_te"}
    /\ ret_lg.kind = "int" /\ ret_ll.kind = "int"
    /\ Len(returned_lg) >= 2 /\ Len(returned_ll) >= 2
    /\ \E te \in 1..old_lg.counter_te : te \notin ListActiveTes(old_lg)
    /\ \E te \in 1..old_ll.counter_te : te \notin LinkedActiveTes(old_ll)

(***************************************************************************)
(* C10.  End to end: N = 10, insert_te(2, 3).                              *)
(***************************************************************************)
FirstInsertOfThreeAtTwo ==
    n = 10 /\ ncalls = 1 /\ call = Call("insert_te", 2, 3)

\* C10 as stated: for a store created with N = 10, insert_te(2, 3) returns 1,
\* after which length() is 13, render() is "--AAA-------" (twelve characters)
\* and active_tes() is {1}.
C10_EndToEndAsStated ==
    FirstInsertOfThreeAtTwo =>
        LET obs == [render |-> <<"-", "-", "A", "A", "A",
                                 "-", "-", "-", "-", "-", "-", "-">>,
                    length |-> 13, active_tes |-> {1}] IN
        /\ ret_lg = RetInt(1) /\ ListObs(lg) = obs
        /\ ret_ll = RetInt(1) /\ LinkedObs(LinkedSelf) = obs

\* C10, amended: for a store created with N = 10, insert_te(2, 3) returns 1,
\* after which length() is 13, render() is "--AAA--------" (thirteen
\* characters: two -, three A, eight -) and active_tes() is {1}.
C10_EndToEnd ==
    FirstInsertOfThreeAtTwo =>
        LET obs == [render |-> <<"-", "-", "A", "A", "A",
                                 "-", "-", "-", "-", "-", "-", "-", "-">>,
                    length |-> 13, active_tes |-> {1}] IN
        /\ ret_lg = RetInt(1) /\ ListObs(lg) = obs
        /\ ret_ll = RetInt(1) /\ LinkedObs(LinkedSelf) = obs

\* insert_te(2, 3) has been made on both stores of size 10
C10_Witness ==
    FirstInsertOfThreeAtTwo /\ ListCalled /\ LinkedCalled

(***************************************************************************)
(* C11.  No zero-length feature is stored.                                 *)
(***************************************************************************)
NoZeroLength(runs) == \A i \in 1..Len(runs) : runs[i].start < runs[i].end

\* C11: in both strategies, no reachable state contains a zero-length
\* feature: an empty outer remainder of the feature that insert_te splits is
\* omitted, not stored.
C11_NoZeroLengthFeature ==
    /\ NoZeroLength(ListRuns(lg))
    /\ NoZeroLength(LinkedRuns(LinkedSelf))

(***************************************************************************)
(* C12.  render() spells the features out, position by position.           *)
(***************************************************************************)
\* render has len characters, and the character at each position p, counted
\* from 0, is the symbol of the feature whose run holds p
SpellsOut(render, runs, len) ==
    /\ Len(render) = len
    /\ \A p \in 0..(len - 1) :
          /\ \E i \in 1..Len(runs) : runs[i].start <= p /\ p < runs[i].end
          /\ \A i \in 1..Len(runs) :
                (runs[i].start <= p /\ p < runs[i].end) =>
                    /\ runs[i].feature = empty_te => render[p + 1] = "-"
                    /\ runs[i].feature = active_te => render[p + 1] = "A"
                    /\ runs[i].feature = inactive_te => render[p + 1] = "x"

\* C12: in both strategies, in every reachable state render() has exactly
\* length() characters, and its character at position p is - if p lies in an
\* Empty feature, A if in an Active one and x if in an Inactive one.
C12_RenderSpellsFeatures ==
    /\ SpellsOut(ListStr(lg), ListRuns(lg), ListLen(lg))
    /\ SpellsOut(LinkedStr(LinkedSelf), LinkedRuns(LinkedSelf),
                 LinkedLen(LinkedSelf))

\* both stores render Empty, Active and Inactive positions
C12_Witness ==
    /\ \A ch \in {"-", "A", "x"} :
          /\ \E p \in 1..Len(ListStr(lg)) : ListStr(lg)[p] = ch
          /\ \E p \in 1..Len(LinkedStr(LinkedSelf)) :
                LinkedStr(LinkedSelf)[p] = ch
    /\ ncalls >= 2

(***************************************************************************)
(* C13.  ListGenome.insert_te keeps the table on the surviving TEs.        *)
(***************************************************************************)
\* insert_te(pos, length) took old to new: every identifier of the table of
\* old that is still in the table of new is mapped to its index of before,
\* plus 2 (three records took the place of one) if that index was after the
\* record that was split, and the record there is its TE of before: Active,
\* of the same length, started length later iff it started at or after pos
ListTableFollows(old, new, pos, length) ==
    LET index == ListFindWhereToInsert(old, pos)
        t == old.identifiers_active
        u == new.identifiers_active IN
    \A id \in (DOMAIN t) \cap (DOMAIN u) :
        LET was == old.genome[t[id] + 1] IN
        /\ u[id] = IF t[id] > index THEN t[id] + 2 ELSE t[id]
        /\ 0 <= u[id] /\ u[id] < Len(new.genome)
        /\ new.genome[u[id] + 1].feature = active_te
        /\ new.genome[u[id] + 1].end - new.genome[u[id] + 1].start
              = was.end - was.start
        /\ new.genome[u[id] + 1].start
              = IF was.start >= pos THEN was.start + length ELSE was.start

\* C13: in ListGenome, after an insert_te made on a store whose table was
\* sound, every identifier that was in the table and was not disabled by the
\* call still indexes the record of its own TE: indexes after the insertion
\* point are shifted by the records inserted less one, the others are left
\* alone.
C13_ListTableFollowsInsert ==
    (/\ call.op = "insert_te" /\ ret_lg.kind = "int"
     /\ ListTableSound(old_lg)) =>
        ListTableFollows(old_lg, lg, call.a, call.b)

(***************************************************************************)
(* C14.  copy_te is insert_te at (start + offset) mod L.                   *)
(***************************************************************************)
\* the run of the feature that the table maps te to
ListRunOf(self, te) == ListRuns(self)[self.identifiers_active[te] + 1]

LinkedRunOf(self, te) ==
    LET runs == LinkedRuns(self) IN
    runs[CHOOSE i \in 1..Len(runs) : te \in runs[i].owners]

\* C14: in both strategies, copy_te(te, offset) on an active te whose feature
\* starts at start and has length len, in a genome of length L, returns the
\* same identifier and ends with the same render(), length() and
\* active_tes() as insert_te((start + offset) mod L, len) made from the same
\* state, the mod taken in [0, L).
C14_CopyIsInsertAtOffset ==
    call.op = "copy_te" =>
        /\ (/\ ListCalled /\ call.a \in ListActiveTes(old_lg)
            /\ ListTableSound(old_lg)) =>
              LET run == ListRunOf(old_lg, call.a)
                  other == ListInsertTe(old_lg,
                              (run.start + call.b) % ListLen(old_lg),
                              run.end - run.start) IN
              /\ ret_lg = other.ret
              /\ ListObs(lg) = ListObs(other.self)
        /\ (/\ LinkedCalled /\ call.a \in LinkedActiveTes(old_ll)
            /\ LinkedTableSound(old_ll)) =>
              LET run == LinkedRunOf(old_ll, call.a)
                  other == LinkedInsertTe(old_ll,
                              (run.start + call.b) % LinkedLen(old_ll),
                              run.end - run.start) IN
              /\ ret_ll = other.ret
              /\ LinkedObs(LinkedSelf) = LinkedObs(other.self)

(***************************************************************************)
(* C15.  insert_te disables the TE at pos and no other.                    *)
(***************************************************************************)
\* the identifiers of the Active runs that hold position pos
OwnersAt(runs, pos) ==
    UNION {runs[i].owners : i \in {j \in 1..Len(runs) :
                /\ runs[j].feature = active_te
                /\ runs[j].start <= pos /\ pos < runs[j].end}}

\* the ListGenome half of C15
C15_ListHalf ==
    (call.op = "insert_te" /\ ListCalled /\ ListTableSound(old_lg)) =>
        /\ ret_lg.kind = "int"
        /\ ListActiveTes(lg) =
              (ListActiveTes(old_lg) \ OwnersAt(ListRuns(old_lg), call.a))
              \cup {ret_lg.val}

\* the LinkedListGenome half of C15
C15_LinkedHalf ==
    (call.op = "insert_te" /\ LinkedCalled /\ LinkedTableSound(old_ll)) =>
        /\ ret_ll.kind = "int"
        /\ LinkedActiveTes(LinkedSelf) =
              (LinkedActiveTes(old_ll) \ OwnersAt(LinkedRuns(old_ll), call.a))
              \cup {ret_ll.val}

\* C15: in both strategies, insert_te(pos, length) within its precondition,
\* made on a store whose table is sound, disables exactly the TE whose Active
\* run holds pos (start <= pos < end): afterwards active_tes() is what it
\* was, less that TE, plus the new identifier.
C15_InsertDisablesExactlyHit == C15_ListHalf /\ C15_LinkedHalf

(***************************************************************************)
(* C16.  disable_te relabels the run of its TE and nothing else.           *)
(***************************************************************************)
\* the positions (from 1) at which two renders of one length differ
Changed(before, after) == {p \in 1..Len(before) : before[p] # after[p]}

\* disable_te(te) returned ret and took a store observed as before, with the
\* runs given, to one observed as after: nothing was raised, length() is
\* kept, te and only te left active_tes(), and render() changed at some
\* positions, all of them from A to x; where the table told which runs are
\* te's (sound), these are exactly the positions of te's runs
DisablesOnly(before, after, ret, te, runs, sound) ==
    /\ ~IsRaise(ret)
    /\ after.length = before.length
    /\ after.active_tes = before.active_tes \ {te}
    /\ Len(after.render) = Len(before.render)
    /\ Changed(before.render, after.render) # {}
    /\ \A p \in Changed(before.render, after.render) :
          before.render[p] = "A" /\ after.render[p] = "x"
    /\ sound =>
          Changed(before.render, after.render) =
              {p \in 1..Len(before.render) :
                  \E i \in 1..Len(runs) :
                      /\ te \in runs[i].owners
                      /\ runs[i].start < p /\ p <= runs[i].end}

\* the ListGenome half of C16
C16_ListHalf ==
    (call.op = "disable_te" /\ call.a \in ListActiveTes(old_lg)) =>
        DisablesOnly(ListObs(old_lg), ListObs(lg), ret_lg, call.a,
                     ListRuns(old_lg), ListTableSound(old_lg))

\* the LinkedListGenome half of C16
C16_LinkedHalf ==
    (call.op = "disable_te" /\ call.a \in LinkedActiveTes(old_ll)) =>
        DisablesOnly(LinkedObs(old_ll), LinkedObs(LinkedSelf), ret_ll, call.a,
                     LinkedRuns(old_ll), LinkedTableSound(old_ll))

\* C16: in both strategies, disable_te(te) on an active te, after any calls
\* of insert_te and copy_te, changes exactly the positions of te's own run
\* from A to x in render(), keeps every other character and length(), and
\* removes te and only te from active_tes().
C16_DisableRelabelsOwnRun == C16_ListHalf /\ C16_LinkedHalf

(***************************************************************************)
(* C17.  What a successful insert_te does.                                 *)
(***************************************************************************)
\* insert_te(pos, length) returned ret and took a store observed as before to
\* one observed as after: length() grew by length, render() shows A at every
\* position of [pos, pos + length), and the identifier returned is active
Inserted(before, after, ret, pos, length) ==
    /\ after.length = before.length + length
    /\ Len(after.render) >= pos + length
    /\ \A p \in pos..(pos + length - 1) : after.render[p + 1] = "A"
    /\ ret.val \in after.active_tes

\* C17: in both strategies, a successful insert_te(pos, length) with
\* 0 <= pos < length() and length > 0 increases length() by exactly length,
\* and afterwards render() has A at every position of [pos, pos + length) and
\* the identifier returned is in active_tes().
C17_InsertGrowsAndShows ==
    call.op = "insert_te" =>
        /\ (ListCalled /\ ret_lg.kind = "int") =>
              Inserted(ListObs(old_lg), ListObs(lg), ret_lg, call.a, call.b)
        /\ (LinkedCalled /\ ret_ll.kind = "int") =>
              Inserted(LinkedObs(old_ll), LinkedObs(LinkedSelf), ret_ll,
                       call.a, call.b)

\* both stores made a second successful insert_te, of a TE longer than one
\* position, at a position where an Active or Inactive run stood
C17_Witness ==
    /\ call.op = "insert_te" /\ call.b >= 2
    /\ ret_lg.kind = "int" /\ ret_ll.kind = "int"
    /\ ret_lg.val >= 2 /\ ret_ll.val >= 2
    /\ ListStr(old_lg)[call.a + 1] # "-"
    /\ LinkedStr(old_ll)[call.a + 1] # "-"

(***************************************************************************)
(* C19.  The Empty positions are those of the construction.                *)
(***************************************************************************)
RECURSIVE Count(_, _)
\* the number of characters ch in a render
Count(render, ch) ==
    IF render = <<>> THEN 0
    ELSE (IF Head(render) = ch THEN 1 ELSE 0) + Count(Tail(render), ch)

\* the ListGenome half of C19
C19_ListHalf == Count(ListStr(lg), "-") = n

\* the LinkedListGenome half of C19
C19_LinkedHalf == Count(LinkedStr(LinkedSelf), "-") = n

\* C19: in both strategies, in every reachable state the number of - in
\* render() is the N of the construction: no call creates, removes or
\* relabels an Empty position.
C19_EmptyPositionsKept == C19_ListHalf /\ C19_LinkedHalf

(***************************************************************************)
(* C18.  Two LinkedListGenome stores do not interfere.                     *)
(***************************************************************************)
\* the identifiers that an object has issued: 1 .. its counter_te (C9)
Issued(self) == 1..self.counter_te

\* the object self reports only identifiers that it has issued: no other is
\* in its active_tes(), copy_te of another returns no identifier, and
\* disable_te of another changes no Link
OwnsItsTes(self) ==
    /\ LinkedActiveTes(self) \subseteq Issued(self)
    /\ \A te \in LinkedActiveTes(self) \ Issued(self) :
          /\ LinkedCopyTe(self, te, 0).ret.kind # "int"
          /\ LinkedDisableTe(self, te).self.heap = self.heap

\* C18: two LinkedListGenome stores constructed independently do not
\* interfere: a call of insert_te, copy_te or disable_te on one leaves
\* active_tes(), render() and length() of the other as they were, and no
\* store reports an identifier active, copyable or disable-able that it has
\* not issued itself.
C18_StoresIndependent ==
    /\ ret_ll # NotCalled => LinkedObs(LinkedSelf2) = LinkedObs(old_ll2)
    /\ ret_ll2 # NotCalled => LinkedObs(LinkedSelf) = LinkedObs(old_ll)
    /\ OwnsItsTes(LinkedSelf)
    /\ OwnsItsTes(LinkedSelf2)

(***************************************************************************)
(* C20.  LinkedListGenome.copy_te ends, with one insertion.                *)
(***************************************************************************)
\* a copy_te followed through its loop ends as copy_te does when taken whole
WalkAgreesWithCopyTe ==
    (call.op = "copy_te" /\ LinkedCalled /\ ~Walking) =>
        LET whole == LinkedCopyTe(old_ll, call.a, call.b) IN
        /\ ret_ll = whole.ret
        /\ LinkedSelf = whole.self

\* a copy_te of an active te has returned: it made one insertion, of one
\* feature of the length of te's, between the two parts of one feature
OneInsertion ==
    (/\ call.op = "copy_te" /\ LinkedCalled /\ ~Walking
     /\ call.a \in LinkedActiveTes(old_ll)) =>
        /\ ret_ll = RetInt(old_ll.counter_te + 1)
        /\ Len(LinkedIter(LinkedSelf)) = Len(LinkedIter(old_ll)) + 2
        /\ LinkedLen(LinkedSelf) =
              LinkedLen(old_ll) + LinkedRunOf(old_ll, call.a).end
                                - LinkedRunOf(old_ll, call.a).start
        /\ ret_ll.val \in LinkedActiveTes(LinkedSelf)

\* C20: in LinkedListGenome, copy_te(te, offset) on an active te ends for
\* every offset, positive, zero, negative or of several times the length of
\* the genome, in every reachable state: the walk around the ring, skipping
\* the dummy head, gets to a feature, and exactly one insertion is made.
C20_CopyTerminates ==
    /\ []OneInsertion
    /\ Walking ~> ~Walking

\* a copy_te whose offset is more than two turns of the ring has returned
\* an identifier, in each direction
C20_Witness ==
    /\ call.op = "copy_te" /\ ret_ll.kind = "int" /\ ~Walking
    /\ call.b > 2 * LinkedLen(old_ll)

C20_WitnessDown ==
    /\ call.op = "copy_te" /\ ret_ll.kind = "int" /\ ~Walking
    /\ call.b < -2 * LinkedLen(old_ll)

====
